---- MODULE Spec2Model ----
(***************************************************************************)
(* A model of _modules/samba_users.py: the smbstatus command runner, the   *)
(* two line parsers, the date normalizer, the disk-usage collector and the *)
(* stats() entry point.                                                    *)
(*                                                                         *)
(* Text is modelled as a sequence of one-character strings, so that every  *)
(* prefix test, split, substitution and pattern match is computed on the   *)
(* characters of the line, as the code computes it.                        *)
(***************************************************************************)
EXTENDS Integers, Sequences, FiniteSets, TLC

TAB == "\t"
NL == "\n"
SP == " "

Digits == <<"0","1","2","3","4","5","6","7","8","9">>
DigitSet == {Digits[i] : i \in 1..Len(Digits)}
UpperSeq == <<"A","B","C","D","E","F","G","H","I","J","K","L","M",
              "N","O","P","Q","R","S","T","U","V","W","X","Y","Z">>
LowerSeq == <<"a","b","c","d","e","f","g","h","i","j","k","l","m",
              "n","o","p","q","r","s","t","u","v","w","x","y","z">>
UpperSet == {UpperSeq[i] : i \in 1..Len(UpperSeq)}
\* the whitespace of str.split(), str.strip() and of \s
WhiteSpace == {SP, TAB, NL}

----------------------------------------------------------------------------
(* Python string primitives *)

startswith(s, prefix) ==
    /\ Len(prefix) <= Len(s)
    /\ SubSeq(s, 1, Len(prefix)) = prefix

\* first index j >= i with s[j] not in class (Len(s)+1 when the run reaches the end)
RunEnd(s, i, class) ==
    CHOOSE j \in i..(Len(s) + 1) :
        /\ j = Len(s) + 1 \/ s[j] \notin class
        /\ \A k \in i..(j - 1) : s[k] \in class

\* first index j >= i with s[j] in class (Len(s)+1 when there is none)
FindIn(s, i, class) ==
    CHOOSE j \in i..(Len(s) + 1) :
        /\ j = Len(s) + 1 \/ s[j] \in class
        /\ \A k \in i..(j - 1) : s[k] \notin class

\* str.split(): the maximal runs of non-whitespace, in order
RECURSIVE SplitFrom(_, _)
SplitFrom(s, i) ==
    LET b == RunEnd(s, i, WhiteSpace) IN
    IF b > Len(s) THEN << >>
    ELSE LET e == FindIn(s, b, WhiteSpace) IN
         <<SubSeq(s, b, e - 1)>> \o SplitFrom(s, e)

split(s) == SplitFrom(s, 1)

\* sep.join(parts)
RECURSIVE join(_, _)
join(sep, parts) ==
    IF parts = << >> THEN << >>
    ELSE IF Len(parts) = 1 THEN parts[1]
    ELSE parts[1] \o sep \o join(sep, Tail(parts))

\* str.strip()
\* last index whose character is not whitespace, 0 when there is none
LastNonWs(s) ==
    CHOOSE j \in 0..Len(s) :
        /\ j = 0 \/ s[j] \notin WhiteSpace
        /\ \A k \in (j + 1)..Len(s) : s[k] \in WhiteSpace

strip(s) == SubSeq(s, RunEnd(s, 1, WhiteSpace), LastNonWs(s))

\* str.rfind('/') as a 1-based index, 0 when absent
rfind_slash(s) ==
    CHOOSE j \in 0..Len(s) :
        /\ j = 0 \/ s[j] = "/"
        /\ \A k \in (j + 1)..Len(s) : s[k] /= "/"

\* os.path.basename: everything after the last '/'
basename(p) == SubSeq(p, rfind_slash(p) + 1, Len(p))

\* re.sub(u'  +', u'\t', line): every maximal run of two or more spaces
\* becomes one tab.  Each character maps to what it leaves in the result:
\* the first space of such a run to a tab, its other spaces to nothing.
SubAt(s, i) ==
    IF s[i] /= SP THEN s[i]
    ELSE IF i > 1 /\ s[i - 1] = SP THEN ""
    ELSE IF i < Len(s) /\ s[i + 1] = SP THEN TAB
    ELSE SP

Kept(c) == c /= ""

sub_multi_spaces(line) ==
    SelectSeq([i \in 1..Len(line) |-> SubAt(line, i)], Kept)

Lower(c) ==
    IF c \in UpperSet
    THEN LowerSeq[CHOOSE i \in 1..Len(UpperSeq) : UpperSeq[i] = c]
    ELSE c

lower(s) == [i \in 1..Len(s) |-> Lower(s[i])]

IsDigits(s) == \A i \in 1..Len(s) : s[i] \in DigitSet

DigitVal(c) == (CHOOSE i \in 1..Len(Digits) : Digits[i] = c) - 1

\* int() of a string of decimal digits
RECURSIVE ToInt(_)
ToInt(s) ==
    IF s = << >> THEN 0
    ELSE 10 * ToInt(SubSeq(s, 1, Len(s) - 1)) + DigitVal(s[Len(s)])

\* '%d' % n for n >= 0
RECURSIVE Str(_)
Str(n) ==
    IF n < 10 THEN <<Digits[n + 1]>>
    ELSE Str(n \div 10) \o <<Digits[(n % 10) + 1]>>

\* '%0<width>d' % n: zero-padded on the left, never truncated
RECURSIVE PadLeft(_, _, _)
PadLeft(s, width, fill) ==
    IF Len(s) >= width THEN s ELSE PadLeft(<<fill>> \o s, width, fill)

ZeroPad(n, width) == PadLeft(Str(n), width, "0")

\* '%2d' % n: space-padded on the left
SpacePad2(n) == PadLeft(Str(n), 2, SP)

----------------------------------------------------------------------------
(* Module constants *)

_STATUS_IGNORED_STARTS == {
    <<"I","g","n","o","r","i","n","g"," ","u","n","k","n","o","w","n"," ","p","a","r","a","m","e","t","e","r">>,
    <<"U","n","k","n","o","w","n"," ","p","a","r","a","m","e","t","e","r"," ","e","n","c","o","u","n","t","e","r","e","d">>,
    <<"P","r","o","c","e","s","s","i","n","g"," ","s","e","c","t","i","o","n">>,
    <<"r","l","i","m","i","t","_","m","a","x">>,
    <<"-","-","-","-","-","-","-","-","-","-","-","-","-","-","-","-">> }

_LOCKS_IGNORED_STARTS == {
    <<"L","o","c","k","e","d"," ","f","i","l","e","s",":">>,
    <<"-","-","-","-","-","-","-","-","-","-","-","-","-","-","-","-">>,
    <<"P","i","d">>,
    <<"N","o"," ","l","o","c","k","e","d"," ","f","i","l","e","s">> }

\* the header row of smbstatus --shares, as split() tokens
SharesHeader == << <<"S","e","r","v","i","c","e">>, <<"p","i","d">>,
                   <<"m","a","c","h","i","n","e">>,
                   <<"C","o","n","n","e","c","t","e","d">>, <<"a","t">> >>

WeekDays == << <<"M","o","n">>, <<"T","u","e">>, <<"W","e","d">>, <<"T","h","u">>,
               <<"F","r","i">>, <<"S","a","t">>, <<"S","u","n">> >>

Months == << <<"J","a","n">>, <<"F","e","b">>, <<"M","a","r">>, <<"A","p","r">>,
             <<"M","a","y">>, <<"J","u","n">>, <<"J","u","l">>, <<"A","u","g">>,
             <<"S","e","p">>, <<"O","c","t">>, <<"N","o","v">>, <<"D","e","c">> >>

\* _DAYSOFWEEK, _MONTHOFYEAR: the alternatives of the pattern (case-sensitive)
_DAYSOFWEEK == {WeekDays[i] : i \in 1..Len(WeekDays)}
_MONTHOFYEAR == {Months[i] : i \in 1..Len(Months)}
\* _DAYOFMONTH: '|'.join('%2d' % value for value in xrange(32))
_DAYOFMONTH == {SpacePad2(v) : v \in 0..31}

----------------------------------------------------------------------------
(* _normdate: datetime.strptime(datestr, '%a %b %d %H:%M:%S %Y').isoformat() *)

IsLeap(y) == (y % 4 = 0) /\ ((y % 100 /= 0) \/ (y % 400 = 0))

DaysInMonth(y, m) ==
    IF m = 2 THEN (IF IsLeap(y) THEN 29 ELSE 28)
    ELSE IF m \in {4, 6, 9, 11} THEN 30 ELSE 31

\* a numeric directive of one or two digits whose value is at most max
NumField(s, max) ==
    /\ Len(s) \in 1..2
    /\ IsDigits(s)
    /\ ToInt(s) <= max

\* %d: 3[0-1]|[1-2]\d|0[1-9]|[1-9]| [1-9] (the leading space is eaten by \s+)
DayField(s) == NumField(s, 31) /\ ToInt(s) >= 1

\* the three ':'-separated parts of the time token, << >> when not three
TimeParts(s) ==
    LET c1 == FindIn(s, 1, {":"})
        c2 == FindIn(s, c1 + 1, {":"})
        c3 == FindIn(s, c2 + 1, {":"})
    IN IF c1 <= Len(s) /\ c2 <= Len(s) /\ c3 > Len(s)
       THEN <<SubSeq(s, 1, c1 - 1), SubSeq(s, c1 + 1, c2 - 1),
              SubSeq(s, c2 + 1, Len(s))>>
       ELSE << >>

\* _strptime: the format's spaces match \s+, names match case-insensitively,
\* the whole string must be consumed; then datetime(...) validates the fields
strptime(datestr) ==
    LET toks == split(datestr)
        bad == [ok |-> FALSE]
    IN IF datestr = << >> \/ datestr[1] \in WhiteSpace
          \/ datestr[Len(datestr)] \in WhiteSpace \/ Len(toks) /= 5
       THEN bad
       ELSE LET hms == TimeParts(toks[4]) IN
            IF /\ lower(toks[1]) \in {lower(WeekDays[i]) : i \in 1..Len(WeekDays)}
               /\ lower(toks[2]) \in {lower(Months[i]) : i \in 1..Len(Months)}
               /\ DayField(toks[3])
               /\ hms /= << >>
               /\ NumField(hms[1], 23)
               /\ NumField(hms[2], 59)
               /\ NumField(hms[3], 61)
               /\ Len(toks[5]) = 4 /\ IsDigits(toks[5])
            THEN LET y == ToInt(toks[5])
                     m == CHOOSE i \in 1..Len(Months) : lower(Months[i]) = lower(toks[2])
                     d == ToInt(toks[3])
                     S == ToInt(hms[3])
                 IN IF y >= 1 /\ d <= DaysInMonth(y, m) /\ S <= 59
                    THEN [ok |-> TRUE, year |-> y, month |-> m, day |-> d,
                          hour |-> ToInt(hms[1]), minute |-> ToInt(hms[2]),
                          second |-> S]
                    ELSE bad
            ELSE bad

\* (faulty variant) the day is printed with '%d', not '%02d'
isoformat_day_unpadded(dt) ==
    ZeroPad(dt.year, 4) \o <<"-">> \o ZeroPad(dt.month, 2) \o <<"-">>
    \o Str(dt.day) \o <<"T">> \o ZeroPad(dt.hour, 2) \o <<":">>
    \o ZeroPad(dt.minute, 2) \o <<":">> \o ZeroPad(dt.second, 2)

\* datetime.isoformat() with microsecond = 0: '%04d-%02d-%02dT%02d:%02d:%02d'
isoformat(dt) ==
    ZeroPad(dt.year, 4) \o <<"-">> \o ZeroPad(dt.month, 2) \o <<"-">>
    \o ZeroPad(dt.day, 2) \o <<"T">> \o ZeroPad(dt.hour, 2) \o <<":">>
    \o ZeroPad(dt.minute, 2) \o <<":">> \o ZeroPad(dt.second, 2)

\* [ok |-> TRUE, date |-> text] or [ok |-> FALSE] when strptime raises ValueError
_normdate(datestr) ==
    LET dt == strptime(datestr) IN
    IF dt.ok THEN [ok |-> TRUE, date |-> isoformat(dt)] ELSE [ok |-> FALSE]

----------------------------------------------------------------------------
(* _REGEX_LOCKED_FILES, matched as re.match does: anchored at the start,    *)
(* greedy, backtracking only where two adjacent pieces can share characters *)

\* (class)+ at i: the index after the run; 0 when the run is empty, or
\* when i = 0 (the piece before did not match)
Plus(s, i, class) ==
    IF i = 0 THEN 0
    ELSE LET e == RunEnd(s, i, class) IN IF e > i THEN e ELSE 0

\* [^\t]+ at i: the run ends at the first tab, which must exist
PlusNotTab(s, i) ==
    IF i = 0 THEN 0
    ELSE LET t == FindIn(s, i, {TAB}) IN
         IF t > i /\ t <= Len(s) THEN t ELSE 0

TwoDigitsAt(s, i) == s[i] \in DigitSet /\ s[i + 1] \in DigitSet

\* _DATE at k: dow ' ' moy ' ' dom ' ' \d\d:\d\d:\d\d ' ' 20\d\d
DateAt(s, k) ==
    /\ k >= 1
    /\ k + 23 <= Len(s)
    /\ SubSeq(s, k, k + 2) \in _DAYSOFWEEK
    /\ s[k + 3] = SP
    /\ SubSeq(s, k + 4, k + 6) \in _MONTHOFYEAR
    /\ s[k + 7] = SP
    /\ SubSeq(s, k + 8, k + 9) \in _DAYOFMONTH
    /\ s[k + 10] = SP
    /\ TwoDigitsAt(s, k + 11) /\ s[k + 13] = ":"
    /\ TwoDigitsAt(s, k + 14) /\ s[k + 16] = ":"
    /\ TwoDigitsAt(s, k + 17)
    /\ s[k + 19] = SP
    /\ s[k + 20] = "2" /\ s[k + 21] = "0"
    /\ TwoDigitsAt(s, k + 22)

\* (?P<filename>.+)\t+_DATE with the filename starting at f: the filename
\* ends before the tab at e, the date starts after the tabs that follow
FilenameEnds(s, f) ==
    LET nl == FindIn(s, f, {NL}) IN
    {e \in (f + 1)..(nl - 1) : s[e] = TAB /\ DateAt(s, RunEnd(s, e, {TAB}))}

Max(S) == CHOOSE x \in S : \A y \in S : y <= x

\* the pieces before the file name, each where the one before ended:
\* <<pid end, uid start, uid end, denyMode start, denyMode end, access start,
\*   access end, rw start, rw end, oplock start, oplock end, sharePath start,
\*   sharePath end>>; a piece that fails gives 0, and so do those after it
FixedPieces(s) ==
    LET pidE == Plus(s, 1, DigitSet)
        uidB == Plus(s, pidE, {TAB})
        uidE == Plus(s, uidB, DigitSet)
        denyB == Plus(s, uidE, {TAB})
        denyE == Plus(s, denyB, UpperSet \cup {"_"})
        accB == Plus(s, denyE, WhiteSpace)
        accE == Plus(s, accB, DigitSet \cup {"x","a","b","c","d","e","f"})
        rwB == Plus(s, accE, {TAB})
        rwE == Plus(s, rwB, UpperSet)
        opB == Plus(s, rwE, {TAB})
        opE == Plus(s, opB, UpperSet \cup {"_", "+"})
        pathB == Plus(s, opE, {TAB})
        pathE == PlusNotTab(s, pathB)
    IN <<pidE, uidB, uidE, denyB, denyE, accB, accE, rwB, rwE, opB, opE,
         pathB, pathE>>

\* where the file name may start: after one or more of the tabs that follow
\* the share path, and such that the rest of the pattern matches
FilenameStarts(s, pathE) ==
    {f \in (pathE + 1)..RunEnd(s, pathE, {TAB}) : FilenameEnds(s, f) /= {}}

\* the groupdict of the match with pieces p, file name s[f..e-1]
Groups(s, p, f, e) ==
    LET k == RunEnd(s, e, {TAB}) IN
    [matched |-> TRUE,
     pid |-> SubSeq(s, 1, p[1] - 1),
     uid |-> SubSeq(s, p[2], p[3] - 1),
     denyMode |-> SubSeq(s, p[4], p[5] - 1),
     access |-> SubSeq(s, p[6], p[7] - 1),
     rw |-> SubSeq(s, p[8], p[9] - 1),
     oplock |-> SubSeq(s, p[10], p[11] - 1),
     sharePath |-> SubSeq(s, p[12], p[13] - 1),
     filename |-> SubSeq(s, f, e - 1),
     dow |-> SubSeq(s, k, k + 2),
     moy |-> SubSeq(s, k + 4, k + 6),
     dom |-> SubSeq(s, k + 8, k + 9),
     tod |-> SubSeq(s, k + 11, k + 18),
     year |-> SubSeq(s, k + 20, k + 23)]

\* \t+ is greedy and gives tabs back to the file name only when it must;
\* .+ is greedy: the longest file name that lets the date match
MatchFilename(s, p, starts) ==
    IF starts = {} THEN [matched |-> FALSE]
    ELSE Groups(s, p, Max(starts), Max(FilenameEnds(s, Max(starts))))

MatchTail(s, p) ==
    IF p[13] = 0 THEN [matched |-> FALSE]
    ELSE MatchFilename(s, p, FilenameStarts(s, p[13]))

\* _REGEX_LOCKED_FILES.match(s): the groupdict, or [matched |-> FALSE]
REGEX_LOCKED_FILES_match(s) == MatchTail(s, FixedPieces(s))

----------------------------------------------------------------------------
(* The line parsers.  A parser's outcome is                                 *)
(*   [kind |-> "None"]                     the line is ignored              *)
(*   [kind |-> "value", value |-> record]  a data dict                      *)
(*   [kind |-> "raise", exc |-> name]      the parser raises                *)

ParsedNone == [kind |-> "None"]
Raises(exc) == [kind |-> "raise", exc |-> exc]

\* '{dow} {moy} {dom} {tod} {year}'.format(**result)
GroupsDate(parsed) ==
    parsed.dow \o <<SP>> \o parsed.moy \o <<SP>> \o parsed.dom \o <<SP>>
    \o parsed.tod \o <<SP>> \o parsed.year

\* lines 257-265: the groupdict with the date fields and sharePath replaced
LockRecord(parsed, date) ==
    IF ~date.ok THEN Raises("ValueError")
    ELSE [kind |-> "value",
          value |-> [pid |-> parsed.pid,
                     uid |-> parsed.uid,
                     denyMode |-> parsed.denyMode,
                     access |-> parsed.access,
                     rw |-> parsed.rw,
                     oplock |-> parsed.oplock,
                     filename |-> parsed.filename,
                     date |-> date.date,
                     share |-> basename(parsed.sharePath)]]

\* (faulty variant) the match is used without the test for None
LockParsedUnchecked(parsed) ==
    IF ~parsed.matched THEN Raises("AttributeError")
    ELSE LockRecord(parsed, _normdate(GroupsDate(parsed)))

\* lines 253-265: what _parse_lock_line makes of the match
LockParsed(parsed) ==
    IF ~parsed.matched THEN ParsedNone
    ELSE LockRecord(parsed, _normdate(GroupsDate(parsed)))

_parse_lock_line(line) ==
    IF line = << >> \/ line = <<NL>> THEN ParsedNone
    ELSE IF \E ignored \in _LOCKS_IGNORED_STARTS : startswith(line, ignored)
    THEN ParsedNone
    ELSE LockParsed(REGEX_LOCKED_FILES_match(sub_multi_spaces(line)))

\* lines 284-289: the dict literal, evaluated in order
ShareRecord(split_line) ==
    IF Len(split_line) < 3 THEN Raises("IndexError")
    ELSE LET date == _normdate(join(<<SP>>, SubSeq(split_line, 4, Len(split_line))))
         IN IF ~date.ok THEN Raises("ValueError")
            ELSE [kind |-> "value",
                  value |-> [share |-> split_line[1],
                             machine |-> split_line[3],
                             date |-> date.date]]

\* lines 279-289: what _parse_share_line makes of the tokens
ShareParsed(split_line) ==
    IF split_line = << >> THEN ParsedNone
    ELSE IF split_line = SharesHeader THEN ParsedNone
    ELSE ShareRecord(split_line)

_parse_share_line(line) ==
    IF \E ignored \in _STATUS_IGNORED_STARTS : startswith(line, ignored)
    THEN ParsedNone
    ELSE ShareParsed(split(line))

----------------------------------------------------------------------------
(* The inputs: what smbstatus, stat, the pillar and disk.usage may answer   *)

\* most lines of one command output
MaxLines == 2
\* most directories the pillar configures
MaxDirs == 2

SeqsUpTo(S, n) == UNION {[1..k -> S] : k \in 0..n}

Spaces2 == <<SP, SP>>
Spaces3 == <<SP, SP, SP>>

\* a date as ctime() prints it: the day is padded to two columns
DateText(dow, moy, dom, tod, year) ==
    dow \o <<SP>> \o moy \o <<SP>> \o dom \o <<SP>> \o tod \o <<SP>> \o year

\* one row of smbstatus --shares: Service pid machine Connected at
ShareRow(share, sep, machine, datetext) ==
    share \o sep \o <<"1","2">> \o sep \o machine \o sep \o datetext \o <<NL>>

\* one row of smbstatus --locks:
\* Pid Uid DenyMode Access R/W Oplock SharePath Name Time
LockRow(sep, sharePath, filename, datetext) ==
    <<"1","2","3","4">> \o sep \o <<"1","0","0","0">> \o sep
    \o <<"D","E","N","Y","_","N","O","N","E">> \o sep
    \o <<"0","x","1","2","0","0","8","9">> \o sep
    \o <<"R","D","O","N","L","Y">> \o sep \o <<"N","O","N","E">> \o sep
    \o sharePath \o sep \o filename \o sep \o datetext \o <<NL>>

Wed == <<"W","e","d">>
Jan == <<"J","a","n">>
Feb == <<"F","e","b">>
Time1 == <<"1","4",":","2","3",":","5","9">>
Year2015 == <<"2","0","1","5">>
Year2016 == <<"2","0","1","6">>
Pub == <<"p","u","b">>
Homes == <<"h","o","m","e","s">>
Host1 == <<"1","0",".","0",".","0",".","1">>
Host2 == <<"1","0",".","0",".","0",".","2">>
PathPub == <<"/","s","r","v","/","p","u","b">>
PathDocs == <<"/","s","r","v","/","d","o","c","s">>
PathPubSlash == <<"/","s","r","v","/","p","u","b","/">>
FileA == <<"a",".","t","x","t">>
FileSpaced == <<"m","y",SP,SP,"d","o","c",".","t","x","t">>

SharesHeaderLine ==
    <<"S","e","r","v","i","c","e">> \o Spaces3 \o <<"p","i","d">> \o Spaces3
    \o <<"m","a","c","h","i","n","e">> \o Spaces3
    \o <<"C","o","n","n","e","c","t","e","d",SP,"a","t",NL>>
RuleLine ==
    <<"-","-","-","-","-","-","-","-","-","-","-","-","-","-","-","-","-","-",NL>>
LockedFilesLine == <<"L","o","c","k","e","d"," ","f","i","l","e","s",":",NL>>
GarbageLine == <<"s","m","b","d",":",SP,"o","o","p","s",NL>>
ShortShareLine == <<"p","u","b",SP,"1","2",NL>>

\* the lines smbstatus --shares prints in the runs of stats()
ShareLines == {
    ShareRow(Pub, Spaces3, Host1, DateText(Wed, Jan, SpacePad2(7), Time1, Year2015)),
    ShareRow(Homes, Spaces2, Host2, DateText(Wed, Jan, SpacePad2(17), Time1, Year2015)),
    SharesHeaderLine,
    <<NL>>,
    ShortShareLine }

\* the lines smbstatus --locks prints in the runs of stats()
LockLines == {
    LockRow(Spaces3, PathPub, FileA, DateText(Wed, Jan, SpacePad2(17), Time1, Year2015)),
    LockRow(Spaces2, PathDocs, FileSpaced, DateText(Wed, Jan, SpacePad2(21), Time1, Year2015)),
    LockRow(Spaces3, PathPub, FileA, DateText(Wed, Jan, SpacePad2(7), Time1, Year2015)),
    LockedFilesLine,
    <<NL>>,
    GarbageLine,
    LockRow(Spaces3, PathPub, FileA, DateText(Wed, Feb, SpacePad2(30), Time1, Year2015)) }

OutputLines(command) == IF command = "shares" THEN ShareLines ELSE LockLines

\* what the environment does to one run of _smbstatus_cmd
CmdEnvs(command) ==
    {[run |-> "ok", retcode |-> 0, open |-> "ok", output |-> o] :
         o \in SeqsUpTo(OutputLines(command), MaxLines)}
    \cup {[run |-> "ok", retcode |-> 1, open |-> "ok", output |-> << >>],
          [run |-> "raise", retcode |-> 0, open |-> "ok", output |-> << >>],
          [run |-> "ok", retcode |-> 0, open |-> "raise", output |-> << >>]}

Directories == {"/mnt/samba", "/srv/share"}
Root == <<"/">>
Mnt == <<"/","m","n","t">>
MountPoints == {Root, Mnt}
\* what stat -c '%m' answers: the mount point and a newline, or a failure
StatAnswers ==
    {[retcode |-> 0, stdout |-> m \o <<NL>>] : m \in MountPoints}
    \cup {[retcode |-> 1, stdout |-> << >>]}
\* disk.usage(): some of the file systems, each with its figures
SpaceOf(m) == [used |-> Len(m), available |-> 10 + Len(m), blocks1K |-> 20 + Len(m)]
SpaceData == {[m \in D |-> SpaceOf(m)] : D \in SUBSET MountPoints}

----------------------------------------------------------------------------
(* The state of one call of stats(test) *)

VARIABLES
    pc,          \* where stats() is: "fold_shares", "fold_locks", "avail_space",
                 \* "stat", "returned" or "raised"
    test,        \* the test argument
    gen,         \* the two generators of _smbstatus_data: state, stdout, index
    used_shares, \* the defaultdict share -> {machines, locked_files}
    tempdirs,    \* the temporary directories that exist on disk
    samba_dirs,  \* _avail_space: the pillar's directories
    directory_to_mount_point,
    dir_index,   \* _avail_space: directories already resolved
    result,      \* << >>, or <<the dict stats() returned>>
    raised,      \* "", or the exception that left stats()
    calls,       \* history: the external steps taken, in order
    yielded      \* history: the (command, share, item) pairs the generators yielded

vars == <<pc, test, gen, used_shares, tempdirs, samba_dirs,
          directory_to_mount_point, dir_index, result, raised, calls, yielded>>

Commands == {"shares", "locks"}

line_parser(command, line) ==
    IF command = "shares" THEN _parse_share_line(line) ELSE _parse_lock_line(line)

\* the for loop of stats() that drives the generator of a command
FoldPc(command) == IF command = "shares" THEN "fold_shares" ELSE "fold_locks"

\* (faulty variant) the generators run eagerly, whichever loop stats() is in
ResumableEager(command) == pc \in {"fold_shares", "fold_locks"}

\* A generator runs only while its own for loop iterates it: creating it
\* (lines 135-136) runs nothing.
Resumable(command) == pc = FoldPc(command)

_share_item_skel == [machines |-> << >>, locked_files |-> << >>]

\* (faulty variant) every item goes to 'machines', whichever stream it comes from
Append_item_machines(used, command, share, item) ==
    LET touched == IF share \in DOMAIN used THEN used
                   ELSE (share :> _share_item_skel) @@ used
    IN [touched EXCEPT ![share].machines = Append(@, item)]

\* used_shares[share][key].append(item), on a defaultdict
Append_item(used, command, share, item) ==
    LET touched == IF share \in DOMAIN used THEN used
                   ELSE (share :> _share_item_skel) @@ used
    IN IF command = "shares"
       THEN [touched EXCEPT ![share].machines = Append(@, item)]
       ELSE [touched EXCEPT ![share].locked_files = Append(@, item)]

\* value.pop('share'): the dict without that key
WithoutShare(value) == [k \in (DOMAIN value) \ {"share"} |-> value[k]]

\* (faulty variant) the error report keeps what was accumulated
OnSmbstatusErrorPartial == [in_error |-> TRUE, status |-> used_shares]

\* except SmbstatusError: return {'in_error': True}
OnSmbstatusError == [in_error |-> TRUE]

\* _smbstatus_cmd(command, test) in an environment env: what it raises or
\* returns, and which temporary directories of its own are left on disk
_smbstatus_cmd(command, tst, env) ==
    LET tempdir == IF tst THEN {} ELSE {command}    \* tempfile.mkdtemp()
    IN IF ~tst /\ env.run = "raise"
       THEN [exc |-> "CommandExecutionError", stdout |-> << >>, left |-> tempdir]
       ELSE IF ~tst /\ env.retcode /= 0
       THEN [exc |-> "SmbstatusError", stdout |-> << >>, left |-> {}]
       ELSE IF env.open = "raise"
       THEN [exc |-> "IOError", stdout |-> << >>, left |-> tempdir]
       ELSE [exc |-> "", stdout |-> env.output, left |-> {}]

CallOutcome(tst, env) ==
    IF ~tst /\ env.run = "raise" THEN "raise"
    ELSE IF ~tst /\ env.retcode /= 0 THEN "nonzero"
    ELSE IF env.open = "raise" THEN "open_raise"
    ELSE "ok"

\* an exception leaves the try block of stats()
Leave(exc) ==
    IF exc = "SmbstatusError"
    THEN /\ pc' = "returned"
         /\ result' = <<OnSmbstatusError>>
         /\ raised' = raised
    ELSE /\ pc' = "raised"
         /\ raised' = exc
         /\ result' = result

Init ==
    /\ pc = "fold_shares"
    /\ test \in BOOLEAN
    /\ gen = [c \in Commands |-> [state |-> "created", stdout |-> << >>, index |-> 0]]
    /\ used_shares = << >>
    /\ tempdirs = {}
    /\ samba_dirs = << >>
    /\ directory_to_mount_point = << >>
    /\ dir_index = 0
    /\ result = << >>
    /\ raised = ""
    /\ calls = << >>
    /\ yielded = << >>

\* the first next() on a generator: _smbstatus_data calls _smbstatus_cmd
GenStart(command) ==
    /\ Resumable(command)
    /\ gen[command].state = "created"
    /\ \E env \in CmdEnvs(command) :
         LET r == _smbstatus_cmd(command, test, env) IN
         /\ calls' = Append(calls, [call |-> "smbstatus", arg |-> command,
                                    outcome |-> CallOutcome(test, env)])
         /\ tempdirs' = tempdirs \cup r.left
         /\ IF r.exc = ""
            THEN /\ gen' = [gen EXCEPT ![command] =
                              [state |-> "running", stdout |-> r.stdout, index |-> 0]]
                 /\ UNCHANGED <<pc, result, raised>>
            ELSE /\ gen' = [gen EXCEPT ![command].state = "raised"]
                 /\ Leave(r.exc)
    /\ UNCHANGED <<test, used_shares, samba_dirs, directory_to_mount_point,
                   dir_index, yielded>>

\* lines 169-183 and 141-145: what the loop of _smbstatus_data does with
\* the parser's outcome for a line, and the for loop of stats() with what
\* the generator yields
GenTurn(command, parsed) ==
    CASE parsed.kind = "None" ->
           /\ gen' = [gen EXCEPT ![command].index = @ + 1]
           /\ UNCHANGED <<pc, result, raised, used_shares, yielded>>
      [] parsed.kind = "raise" ->
           /\ gen' = [gen EXCEPT ![command].state = "raised"]
           /\ Leave(parsed.exc)
           /\ UNCHANGED <<used_shares, yielded>>
      [] parsed.kind = "value" /\ Len(parsed.value.date) /= 19 ->
           /\ gen' = [gen EXCEPT ![command].state = "raised"]
           /\ Leave("AssertionError")
           /\ UNCHANGED <<used_shares, yielded>>
      [] parsed.kind = "value" /\ Len(parsed.value.date) = 19 ->
           /\ gen' = [gen EXCEPT ![command].index = @ + 1]
           /\ yielded' = Append(yielded, <<command, parsed.value.share,
                                           WithoutShare(parsed.value)>>)
           /\ used_shares' = Append_item(used_shares, command, parsed.value.share,
                                         WithoutShare(parsed.value))
           /\ UNCHANGED <<pc, result, raised>>

\* one turn of the loop of _smbstatus_data on the next line of the output
GenStep(command) ==
    /\ Resumable(command)
    /\ gen[command].state = "running"
    /\ gen[command].index < Len(gen[command].stdout)
    /\ GenTurn(command,
               line_parser(command, gen[command].stdout[gen[command].index + 1]))
    /\ UNCHANGED <<test, tempdirs, samba_dirs, directory_to_mount_point,
                   dir_index, calls>>

\* the generator is exhausted: its for loop ends and its frame is dropped
GenStop(command) ==
    /\ Resumable(command)
    /\ gen[command].state = "running"
    /\ gen[command].index = Len(gen[command].stdout)
    /\ gen' = [gen EXCEPT ![command] =
                 [state |-> "exhausted", stdout |-> << >>, index |-> @.index]]
    /\ pc' = IF command = "shares" THEN "fold_locks" ELSE "avail_space"
    /\ UNCHANGED <<test, used_shares, tempdirs, samba_dirs,
                   directory_to_mount_point, dir_index, result, raised,
                   calls, yielded>>

\* _avail_space: __salt__['pillar.get']('samba_dirs', ('/mnt/samba',))
AvailSpacePillar ==
    /\ pc = "avail_space"
    /\ \E dirs \in SeqsUpTo(Directories, MaxDirs) : samba_dirs' = dirs
    /\ directory_to_mount_point' = << >>
    /\ dir_index' = 0
    /\ pc' = "stat"
    /\ calls' = Append(calls, [call |-> "pillar.get", arg |-> "samba_dirs",
                               outcome |-> "ok"])
    /\ UNCHANGED <<test, gen, used_shares, tempdirs, result, raised, yielded>>

\* _avail_space: one turn of the loop over samba_dirs
AvailSpaceStat ==
    /\ pc = "stat"
    /\ dir_index < Len(samba_dirs)
    /\ LET directory == samba_dirs[dir_index + 1] IN
       \E stat_data \in StatAnswers :
         IF stat_data.retcode /= 0
         THEN /\ calls' = Append(calls, [call |-> "stat", arg |-> directory,
                                         outcome |-> "nonzero",
                                         stdout |-> stat_data.stdout])
              /\ Leave("SmbstatusError")
              /\ UNCHANGED <<directory_to_mount_point, dir_index>>
         ELSE /\ calls' = Append(calls, [call |-> "stat", arg |-> directory,
                                         outcome |-> "ok",
                                         stdout |-> stat_data.stdout])
              /\ directory_to_mount_point' =
                     (directory :> strip(stat_data.stdout)) @@ directory_to_mount_point
              /\ dir_index' = dir_index + 1
              /\ UNCHANGED <<pc, result, raised>>
    /\ UNCHANGED <<test, gen, used_shares, tempdirs, samba_dirs, yielded>>

\* the mount points of a directory -> mount point dict, once each
single_mount_points(d2m) == {d2m[d] : d \in DOMAIN d2m}

\* (faulty variant) one entry per mount point of the host, resolved or not
space_info_every_mount(d2m, space_data) ==
    [m \in DOMAIN space_data |->
        [used |-> space_data[m].used,
         available |-> space_data[m].available,
         total |-> space_data[m].blocks1K]]

\* the space_info dict: one entry per mount point, from space_data
space_info(d2m, space_data) ==
    [m \in single_mount_points(d2m) |->
        [used |-> space_data[m].used,
         available |-> space_data[m].available,
         total |-> space_data[m].blocks1K]]

\* _avail_space after the loop, and the return of stats()
AvailSpaceUsage ==
    /\ pc = "stat"
    /\ dir_index = Len(samba_dirs)
    /\ \E space_data \in SpaceData :
         /\ calls' = Append(calls, [call |-> "disk.usage", arg |-> "",
                                    outcome |-> "ok",
                                    mounts |-> DOMAIN space_data])
         /\ IF single_mount_points(directory_to_mount_point) \subseteq DOMAIN space_data
            THEN /\ result' = <<[in_error |-> FALSE,
                                 status |-> used_shares,
                                 avail_space |->
                                   [mount_points |-> directory_to_mount_point,
                                    disk_usage |->
                                        space_info(directory_to_mount_point,
                                                   space_data)]]>>
                 /\ pc' = "returned"
                 /\ raised' = raised
            ELSE Leave("KeyError")
    /\ UNCHANGED <<test, gen, used_shares, tempdirs, samba_dirs,
                   directory_to_mount_point, dir_index, yielded>>

Next ==
    \/ \E command \in Commands : GenStart(command)
    \/ \E command \in Commands : GenStep(command)
    \/ \E command \in Commands : GenStop(command)
    \/ AvailSpacePillar
    \/ AvailSpaceStat
    \/ AvailSpaceUsage

Spec == Init /\ [][Next]_vars

----------------------------------------------------------------------------
(* The parsers on their own: stats() stands in the for loop of one of the   *)
(* generators, whose command has just printed one line.  The line is drawn  *)
(* from rows with every day of the month, in every way of writing it.       *)

Time24 == <<"2","4",":","0","0",":","0","0">>
Year0 == <<"0","0","0","0">>

\* ' 0' .. '32' as ctime() pads them, '1' .. '9' bare, '01' .. '09'
DayTexts ==
    {SpacePad2(v) : v \in 0..32} \cup {Str(v) : v \in 1..9}
    \cup {ZeroPad(v, 2) : v \in 1..9}

ColumnSeps == {Spaces2, <<TAB>>, <<SP>>}

ParseShareLines ==
    {ShareRow(share, sep, Host1, DateText(Wed, moy, dom, tod, year)) :
         share \in {Pub, Homes}, sep \in ColumnSeps, moy \in {Jan, Feb},
         dom \in DayTexts, tod \in {Time1, Time24},
         year \in {Year2015, Year2016, Year0}}
    \cup ShareLines \cup {RuleLine, << >>}

ParseLockLines ==
    {LockRow(sep, path, FileA, DateText(Wed, moy, dom, tod, year)) :
         sep \in ColumnSeps, path \in {PathPub, PathPubSlash, Root},
         moy \in {Jan, Feb}, dom \in DayTexts, tod \in {Time1, Time24},
         year \in {Year2015, Year2016}}
    \cup LockLines \cup {RuleLine, << >>}

ParseLines(command) ==
    IF command = "shares" THEN ParseShareLines ELSE ParseLockLines

ParseInit ==
    /\ test = FALSE
    /\ \E command \in Commands : \E line \in ParseLines(command) :
         /\ pc = FoldPc(command)
         /\ gen = [c \in Commands |->
                     IF c = command
                     THEN [state |-> "running", stdout |-> <<line>>, index |-> 0]
                     ELSE IF c = "shares"
                     THEN [state |-> "exhausted", stdout |-> << >>, index |-> 0]
                     ELSE [state |-> "created", stdout |-> << >>, index |-> 0]]
         /\ calls = IF command = "shares"
                    THEN <<[call |-> "smbstatus", arg |-> "shares", outcome |-> "ok"]>>
                    ELSE <<[call |-> "smbstatus", arg |-> "shares", outcome |-> "ok"],
                           [call |-> "smbstatus", arg |-> "locks", outcome |-> "ok"]>>
    /\ used_shares = << >>
    /\ tempdirs = {}
    /\ samba_dirs = << >>
    /\ directory_to_mount_point = << >>
    /\ dir_index = 0
    /\ result = << >>
    /\ raised = ""
    /\ yielded = << >>

ParseNext == \E command \in Commands : GenStep(command)

ParseSpec == ParseInit /\ [][ParseNext]_vars

----------------------------------------------------------------------------
(* Properties *)

Returned == pc = "returned" /\ Len(result) = 1
SuccessfulReport == Returned /\ ~result[1].in_error
ErrorReport == Returned /\ result[1] = [in_error |-> TRUE]

CallIs(i, name) == calls[i].call = name
CmdCall(i, command) == CallIs(i, "smbstatus") /\ calls[i].arg = command

\* some run of the status command has exited non-zero
StatusCommandFailed ==
    \E i \in 1..Len(calls) : CallIs(i, "smbstatus") /\ calls[i].outcome = "nonzero"

\* C1: once the status command has exited non-zero, for 'shares' or for
\* 'locks', stats() has returned exactly {in_error: true}, whatever had been
\* accumulated before
C1_NonZeroExitGivesInError ==
    StatusCommandFailed => ErrorReport /\ raised = ""

\* the 'locks' command fails after the shares stream has given records
C1_Witness ==
    /\ StatusCommandFailed
    /\ yielded /= << >>
    /\ ErrorReport

\* the disk-usage data lacks a mount point resolved for a directory
MountPointMissing ==
    \E i \in 1..Len(calls) :
        /\ CallIs(i, "disk.usage")
        /\ ~(single_mount_points(directory_to_mount_point) \subseteq calls[i].mounts)

\* C2: when a resolved mount point is missing from the disk-usage data,
\* stats() returns {in_error: true}, as for every other failure of the
\* disk-usage step
C2_MissingMountPointGivesInError ==
    MountPointMissing => ErrorReport

\* the items a command yielded for a share, in the order of its lines
YieldedFor(command, share) ==
    LET mine == SelectSeq(yielded, LAMBDA y : y[1] = command /\ y[2] = share)
    IN [i \in 1..Len(mine) |-> mine[i][3]]

C4_TempDirAlwaysDeleted ==
    ~test => tempdirs = {}

\* C5: every record the parsers produce has a non-empty share
C5_ShareNeverEmpty ==
    \A i \in 1..Len(yielded) : yielded[i][2] /= << >>

\* the directories the pillar configured
ConfiguredDirs == {samba_dirs[i] : i \in 1..Len(samba_dirs)}

\* what the last stat query for a directory answered, stripped
LastStat(directory) ==
    LET last == CHOOSE i \in 1..Len(calls) :
                    /\ CallIs(i, "stat") /\ calls[i].arg = directory
                    /\ \A j \in (i + 1)..Len(calls) :
                           ~(CallIs(j, "stat") /\ calls[j].arg = directory)
    IN strip(calls[last].stdout)

\* C6: the collector's disk_usage has exactly one entry per distinct mount
\* point resolved for the configured directories, and mount_points exactly
\* one entry per configured directory
C6_OneEntryPerMountPoint ==
    SuccessfulReport =>
        LET avail == result[1].avail_space IN
        /\ DOMAIN avail.mount_points = ConfiguredDirs
        /\ \A d \in ConfiguredDirs : avail.mount_points[d] = LastStat(d)
        /\ DOMAIN avail.disk_usage = {LastStat(d) : d \in ConfiguredDirs}

\* two directories on one mount point: one disk_usage entry
C6_Witness ==
    /\ SuccessfulReport
    /\ Cardinality(ConfiguredDirs) = 2
    /\ Cardinality(DOMAIN result[1].avail_space.disk_usage) = 1

\* a lock line that is blank or fails the fixed pattern
LockLineDropped(line) ==
    \/ line = << >>
    \/ line = <<NL>>
    \/ ~REGEX_LOCKED_FILES_match(sub_multi_spaces(line)).matched

\* the (share, item) pairs of the lock lines that parse to a record
RECURSIVE LockRecordsOf(_)
LockRecordsOf(lines) ==
    IF lines = << >> THEN << >>
    ELSE LET parsed == _parse_lock_line(lines[Len(lines)])
             before == LockRecordsOf(SubSeq(lines, 1, Len(lines) - 1))
         IN IF parsed.kind = "value"
            THEN Append(before, <<"locks", parsed.value.share,
                                  WithoutShare(parsed.value)>>)
            ELSE before

LocksYielded == SelectSeq(yielded, LAMBDA y : y[1] = "locks")

\* C7: a lock line that is blank or fails the pattern is ignored and never
\* raises: the run goes on past it, and the lock lines around it that parse
\* to a record have each yielded it
C7_BadLockLinesAreSkipped ==
    LET g == gen["locks"] IN
    (g.state \in {"running", "raised"} /\ g.stdout /= << >>) =>
        /\ \A i \in 1..Len(g.stdout) :
               LockLineDropped(g.stdout[i]) =>
                   _parse_lock_line(g.stdout[i]) = ParsedNone
        /\ g.state = "raised" => ~LockLineDropped(g.stdout[g.index + 1])
        /\ LocksYielded = LockRecordsOf(SubSeq(g.stdout, 1, g.index))

\* a line that fails the pattern, then a row that has yielded its record
C7_Witness ==
    LET g == gen["locks"] IN
    /\ g.state = "running"
    /\ g.index = 2
    /\ g.stdout[1] = GarbageLine
    /\ Len(LocksYielded) = 1

IsIsoText(d) ==
    /\ Len(d) = 19
    /\ d[5] = "-" /\ d[8] = "-" /\ d[11] = "T" /\ d[14] = ":" /\ d[17] = ":"
    /\ \A i \in (1..19) \ {5, 8, 11, 14, 17} : d[i] \in DigitSet

\* C8: every record yielded carries a date of exactly 19 characters,
\* YYYY-MM-DDTHH:MM:SS, and the length assertion never fails
C8_DatesAreIso19 ==
    /\ raised /= "AssertionError"
    /\ \A i \in 1..Len(yielded) : IsIsoText(yielded[i][3].date)

\* a share row of a one-digit day has yielded its record
C8_Witness ==
    /\ Len(yielded) = 1
    /\ yielded[1][1] = "shares"
    /\ yielded[1][3].date[9] = "0"

\* the lock rows that are well formed, with every day the month has,
\* padded to two columns as ctime() prints it
ValidLockRows ==
    {LockRow(sep, path, FileA,
             DateText(Wed, Months[md[1]], SpacePad2(md[2]), Time1, Year2015)) :
         sep \in {Spaces2, <<TAB>>}, path \in {PathPub, PathPubSlash, Root},
         md \in {x \in {1, 2} \X (1..31) : x[2] <= DaysInMonth(2015, x[1])}}

\* the locks generator has dealt with the line it was given
LockLineDone ==
    \/ gen["locks"].index = 1
    \/ gen["locks"].state = "raised"

\* C9: a well-formed lock row whose day is 1 to 31, with or without a
\* leading space, gives a FileLock record
C9_EveryDayOfMonthAccepted ==
    (pc = "fold_locks" /\ Len(gen["locks"].stdout) = 1
     /\ gen["locks"].stdout[1] \in ValidLockRows /\ LockLineDone)
        => Len(yielded) = 1

BothStreamsConsumed == \A c \in Commands : gen[c].state = "exhausted"

\* C10: the external steps of one call come in a fixed order and stop at
\* the first failure: 'shares' first and folded to its end before 'locks',
\* the stat queries and disk.usage after both streams, and no disk.usage
\* after a failed stat query
C10_ExternalStepsInOrder ==
    \A i \in 1..Len(calls) :
        /\ calls[i].outcome /= "ok" =>
               i = Len(calls) /\ pc \in {"returned", "raised"}
        /\ CmdCall(i, "shares") => i = 1
        /\ CmdCall(i, "locks") =>
               i = 2 /\ CmdCall(1, "shares") /\ gen["shares"].state = "exhausted"
        /\ CallIs(i, "pillar.get") => i = 3 /\ BothStreamsConsumed
        /\ CallIs(i, "stat") =>
               /\ i > 3 /\ BothStreamsConsumed
               /\ \A j \in 4..(i - 1) : CallIs(j, "stat")
        /\ CallIs(i, "disk.usage") =>
               /\ i = Len(calls) /\ i = 4 + Len(samba_dirs)
               /\ BothStreamsConsumed
               /\ \A j \in 4..(i - 1) : CallIs(j, "stat") /\ calls[j].outcome = "ok"

\* a whole run: both commands, the pillar, two stat queries, disk.usage
C10_Witness ==
    /\ SuccessfulReport
    /\ Len(calls) = 6
    /\ CallIs(6, "disk.usage")
    /\ yielded /= << >>

====
